---- MODULE Spec2Model ----
(***************************************************************************)
(* Teamleader MCP server: the credential lifecycle (TokenManager), the     *)
(* refresh exchange it drives, the token storage file, and the             *)
(* authenticated call wrapper (withRetry / onTokenRefresh) of the server.  *)
(*                                                                         *)
(* Scheduling model: one JavaScript event loop.  An action is one          *)
(* synchronous segment of code (from a call or the completion of an        *)
(* awaited I/O up to the next await on I/O).  Continuations that a settled *)
(* promise queues as microtasks run before any further I/O completion,     *)
(* timer or new request: while one is pending (pc = "resume") no other     *)
(* action is enabled.                                                      *)
(***************************************************************************)
EXTENDS Integers, Sequences, FiniteSets, TLC

(* ------------------------------ constants ------------------------------ *)

REFRESH_BUFFER_MS == 5 * 60 * 1000

MAX_REFRESH_RETRIES == 3

RETRY_DELAY_MS == 1000

\* initialize(): Date.now() + 60 * 60 * 1000
\* the delay of the timer startAuthServer() sets
AUTH_TIMEOUT_MS == 5 * 60 * 1000

INITIAL_EXPIRY_MS == 60 * 60 * 1000

(* ------------------------------- bounds -------------------------------- *)

\* logical callers besides the server's main()
NCallers == 2

\* doRefresh() activations in one run
MaxFlights == 2

\* clock advances (besides retry sleeps) in one run
MaxTicks == 1

\* HTTP requests the authorization listener receives
MaxRequests == 3

(* ------------------------------ encodings ------------------------------ *)

\* a string field that is undefined or '' (falsy)
NoToken == 0

\* the token(s) of the constructor's config (environment / CLI credentials)
EnvToken == 1

\* the token(s) of a record found in the storage file
StoredToken == 2

\* the k-th token pair minted by the token endpoint
Minted(k) == StoredToken + k

\* expiresAt?: number, when undefined
Undefined == -1

\* Date.now() when the process starts (any positive instant).
StartTime == INITIAL_EXPIRY_MS

\* expires_in (seconds) of a token response: Teamleader tokens last 1 hour
ExpiresIn == {3600}

Main == 0

Callers == 1..NCallers

Procs == 0..NCallers

\* what the storage file may hold at start
Absent == [kind |-> "absent", accessToken |-> NoToken, refreshToken |-> NoToken, expiresAt |-> Undefined]

Corrupt == [kind |-> "corrupt", accessToken |-> NoToken, refreshToken |-> NoToken, expiresAt |-> Undefined]

\* a file that exists but cannot be read (readFile fails)
Unreadable == [kind |-> "unreadable", accessToken |-> NoToken, refreshToken |-> NoToken, expiresAt |-> Undefined]

Record(a, r, e) == [kind |-> "record", accessToken |-> a, refreshToken |-> r, expiresAt |-> e]

InitialStores ==
    { Absent, Corrupt, Unreadable,
      Record(StoredToken, StoredToken, Undefined),
      Record(StoredToken, StoredToken, StartTime - 2 * REFRESH_BUFFER_MS),
      Record(StoredToken, StoredToken, StartTime + INITIAL_EXPIRY_MS),
      Record(StoredToken, NoToken, StartTime + INITIAL_EXPIRY_MS) }

\* no startAuthServer() call yet
AuthIdle ==
    [server |-> "none", promise |-> "pending", cause |-> "none", settles |-> 0, calls |-> 0,
     timer |-> "none", deadline |-> 0, elapsed |-> 0, exchanges |-> 0, requests |-> 0]

\* TokenManagerConfig: whether clientId and clientSecret are given, and the refreshToken
Configs == [client : BOOLEAN, refreshToken : {NoToken, EnvToken}]

VARIABLES
    now,             \* Date.now()
    ticks,           \* clock advances so far
    accessToken,     \* TokenManager.accessToken
    refreshToken,    \* TokenManager.refreshToken
    expiresAt,       \* TokenManager.expiresAt
    oauthConfig,     \* TokenManager.oauthConfig is set
    config,          \* the TokenManagerConfig the manager was built from
    auth,            \* the startAuthServer() call: its server, promise and timer
    lastSave,        \* the credential last written to the storage file by a save, and
                     \* whether a new process has loaded the file since (NoSave: none)
    refreshPromise,  \* TokenManager.refreshPromise: 0 (undefined) or the doRefresh() it holds
    flights,         \* the doRefresh() activations, in start order
    store,           \* the token storage file
    issued,          \* token pairs minted by the token endpoint
    clientToken,     \* TeamleaderClient.config.accessToken (NoToken: no client yet)
    onTokenRefresh,  \* createServer was given the refresh callback
    callers,         \* the calls in progress, one per logical caller: main() is 0
    expiredSet,      \* setExpired() was called and expiresAt not written since
    lastRefresh,     \* the doRefresh() that settled in the step just taken (NoRefresh: none)
    lastReturn       \* what the step just taken returned to its caller (NoReturn: nothing)

vars == << now, ticks, accessToken, refreshToken, expiresAt, oauthConfig, config, auth, lastSave,
           refreshPromise, flights, store, issued, clientToken, onTokenRefresh,
           callers, expiredSet, lastRefresh, lastReturn >>

(* ------------------------------ TokenManager --------------------------- *)

\* JavaScript truthiness of a number field: undefined and 0 are falsy
Falsy(x) == x = Undefined \/ x = 0

canRefresh == oauthConfig /\ refreshToken # NoToken

\* needsRefresh() comparing against the expiry itself, without the buffer
needsRefreshAt_noBuffer(e, t) ==
    IF ~canRefresh THEN FALSE
    ELSE IF Falsy(e) THEN FALSE
    ELSE t > e

needsRefreshAt(e, t) ==
    IF ~canRefresh THEN FALSE
    ELSE IF Falsy(e) THEN FALSE
    ELSE t > e - REFRESH_BUFFER_MS

needsRefresh == needsRefreshAt(expiresAt, now)

\* no save of a credential has completed
NoSave ==
    [kind |-> "none", accessToken |-> NoToken, refreshToken |-> NoToken, expiresAt |-> Undefined,
     loaded |-> FALSE, by |-> "none"]

\* a caller with no call in progress
Idle ==
    [pc |-> "idle", op |-> "none", stage |-> "none", flight |-> 0, calls |-> 0,
     tok |-> NoToken, due |-> FALSE, forced |-> FALSE, late |-> FALSE, first |-> 0,
     valid |-> TRUE]

\* the step returned nothing to a caller
NoReturn ==
    [op |-> "none", tok |-> NoToken, err |-> "none", flight |-> 0, calls |-> 0,
     stage |-> "none", status |-> 0, due |-> FALSE, forced |-> FALSE, noExpiry |-> FALSE,
     first |-> 0]

\* what the call with record rec returns: a token or an error, with the call's record
ReturnOf(rec, tok, err) ==
    [op |-> rec.op, tok |-> tok, err |-> err, flight |-> rec.flight,
     calls |-> rec.calls, stage |-> rec.stage, status |-> 0,
     due |-> rec.due, forced |-> rec.forced, noExpiry |-> FALSE,
     first |-> rec.first]

\* what caller c's call returns
Return(c, tok, err) == ReturnOf(callers[c], tok, err)

\* the step settled no doRefresh()
NoRefresh == [id |-> 0, ok |-> FALSE, attempt |-> 0, writes |-> 0, before |-> NoToken, minted |-> NoToken]

\* what is kept of a doRefresh() once its promise has settled
Outcome(f, st) ==
    [st |-> st, attempt |-> 0, sent |-> NoToken,
     before |-> IF st = "rejected" THEN flights[f].before ELSE NoToken,
     minted |-> flights[f].minted, writes |-> 0, delay |-> 0, content |-> Absent,
     got |-> flights[f].got, cause |-> "none", saved |-> FALSE]

Summary(f, ok) ==
    [id |-> f, ok |-> ok, attempt |-> flights[f].attempt, writes |-> flights[f].writes,
     before |-> flights[f].before, minted |-> flights[f].minted]

Settled(f) == flights[f].st \in {"resolved", "rejected"}

\* refresh() without the check of the pending operation
refresh_noJoin ==
    IF ~canRefresh THEN [kind |-> "unavailable", id |-> 0]
    ELSE [kind |-> "started", id |-> Len(flights) + 1]

\* the synchronous part of refresh(): join the pending operation, fail, or start doRefresh()
refresh ==
    IF refreshPromise # 0 THEN [kind |-> "joined", id |-> refreshPromise]
    ELSE IF ~canRefresh THEN [kind |-> "unavailable", id |-> 0]
    ELSE [kind |-> "started", id |-> Len(flights) + 1]

\* doRefresh() presenting the refresh token of the configuration at every first attempt
doRefreshStart_configToken ==
    [st |-> "fetch", attempt |-> 1, sent |-> config.refreshToken, before |-> accessToken,
     minted |-> NoToken, writes |-> 0, delay |-> 0, content |-> Absent, got |-> {},
     cause |-> "none", saved |-> FALSE]

\* doRefresh() up to its first await: attempt 1 is sent with the current refresh token
doRefreshStart ==
    [st |-> "fetch", attempt |-> 1, sent |-> refreshToken, before |-> accessToken,
     minted |-> NoToken, writes |-> 0, delay |-> 0, content |-> Absent, got |-> {},
     cause |-> "none", saved |-> FALSE]

\* the state after refresh()'s synchronous part, for a call that got r
RefreshEffect(r) ==
    /\ r.kind = "started" => Len(flights) < MaxFlights
    /\ flights' = IF r.kind = "started" THEN Append(flights, doRefreshStart) ELSE flights
    /\ refreshPromise' = IF r.kind = "started" THEN r.id ELSE refreshPromise

\* where a caller that called refresh() and got r waits
AwaitPc(r) == IF r.kind = "joined" /\ Settled(r.id) THEN "resume" ELSE "await"

\* refresh() clearing the pending operation only after a success
refreshFinally_onSuccess(ok) == IF ok THEN 0 ELSE refreshPromise

\* refresh()'s finally block, run by the caller that started the operation
refreshFinally(ok) == 0

\* the callers awaiting flight f
Awaiting(f) == { c \in Procs : callers[c].pc = "await" /\ callers[c].flight = f }

\* a settlement that resumes one of the awaiting callers only
Settle_one(f) ==
    [c \in Procs |->
        IF c \in Awaiting(f) /\ \A d \in Awaiting(f) : c <= d
        THEN [callers[c] EXCEPT !.pc = "resume"]
        ELSE callers[c]]

\* the promise of flight f settles: the starter's finally runs first, then every
\* caller awaiting f has its continuation queued
Settle(f) ==
    [c \in Procs |->
        IF callers[c].pc = "await" /\ callers[c].flight = f
        THEN [callers[c] EXCEPT !.pc = "resume"]
        ELSE callers[c]]

Busy == \E c \in Procs : callers[c].pc = "resume"

Free(c) == callers[c].pc = "idle"

initialized == callers[Main].pc # "idle"

serverUp == callers[Main].pc = "up"

InitWith(stores) ==
    /\ now = StartTime
    /\ ticks = 0
    /\ \E cfg \in Configs :
          /\ config = cfg
          /\ accessToken = EnvToken
          /\ refreshToken = cfg.refreshToken
          /\ oauthConfig = (cfg.client /\ cfg.refreshToken # NoToken)
    /\ expiresAt = Undefined
    /\ lastSave = NoSave
    /\ auth = AuthIdle
    /\ refreshPromise = 0
    /\ flights = << >>
    /\ store \in stores
    /\ issued = 0
    /\ clientToken = NoToken
    /\ onTokenRefresh = FALSE
    /\ callers = [c \in Procs |-> Idle]
    /\ expiredSet = FALSE
    /\ lastRefresh = NoRefresh
    /\ lastReturn = NoReturn

\* the state after construction, over every storage file
Init == InitWith(InitialStores)

\* the same, over a missing file and a record whose token is ten minutes past expiry
LiveStores == { Absent, Record(StoredToken, StoredToken, StartTime - 2 * REFRESH_BUFFER_MS) }

InitLive == InitWith(LiveStores)

(* ------------------------------- the clock ----------------------------- *)

Tick ==
    /\ ~Busy
    /\ ticks < MaxTicks
    /\ now' = now + INITIAL_EXPIRY_MS
    /\ ticks' = ticks + 1
    /\ lastReturn' = NoReturn
    /\ lastRefresh' = NoRefresh
    /\ UNCHANGED << accessToken, refreshToken, expiresAt, oauthConfig, config, auth, lastSave, refreshPromise,
                    flights, store, issued, clientToken, onTokenRefresh, callers,
                    expiredSet >>

(* ----------------------- initialize / loadStoredTokens ----------------- *)

\* loadStoredTokens() letting the error of JSON.parse escape
loadOutcome_parseThrows(s) ==
    IF s.kind = "corrupt" THEN "throws"
    ELSE IF s.kind = "record" /\ s.accessToken # NoToken /\ s.refreshToken # NoToken THEN "loaded"
    ELSE "absent"

\* how loadStoredTokens() ends on the file s: it returns true ("loaded") for a readable
\* record with both tokens, and false ("absent") otherwise, the catch block keeping every
\* error of readFile and JSON.parse inside
loadOutcome(s) ==
    IF s.kind = "record" /\ s.accessToken # NoToken /\ s.refreshToken # NoToken THEN "loaded"
    ELSE "absent"

\* the fields after loadStoredTokens() of a manager holding a, r, e: a readable record
\* with both tokens is adopted
loadStoredTokensOver(a, r, e) ==
    IF loadOutcome(store) = "loaded"
    THEN [accessToken |-> store.accessToken, refreshToken |-> store.refreshToken,
          expiresAt |-> store.expiresAt]
    ELSE [accessToken |-> a, refreshToken |-> r, expiresAt |-> e]

loadStoredTokens == loadStoredTokensOver(accessToken, refreshToken, expiresAt)

\* the expiry initialize() leaves, given the loaded fields
initialExpiry(l) ==
    IF oauthConfig /\ l.refreshToken # NoToken /\ Falsy(l.expiresAt)
    THEN now + INITIAL_EXPIRY_MS
    ELSE l.expiresAt

initialize ==
    /\ callers[Main].pc = "idle"
    /\ LET l == loadStoredTokens IN
          /\ accessToken' = l.accessToken
          /\ refreshToken' = l.refreshToken
          /\ expiresAt' = initialExpiry(l)
          /\ lastReturn' = [NoReturn EXCEPT !.op = "initialize", !.noExpiry = Falsy(l.expiresAt),
                                              !.err = IF loadOutcome(store) = "throws"
                                                      THEN "load" ELSE "none"]
    /\ expiredSet' = FALSE
    /\ callers' = [callers EXCEPT ![Main] =
          [Idle EXCEPT !.pc = IF loadOutcome(store) = "throws" THEN "exit" ELSE "init",
                       !.op = "start"]]
    /\ lastRefresh' = NoRefresh
    /\ UNCHANGED << now, ticks, oauthConfig, config, auth, lastSave, refreshPromise, flights, store, issued,
                    clientToken, onTokenRefresh >>

(* --------------------------- setExpired / setExpiresAt ----------------- *)

\* setExpired() discarding the access token together with the expiry
setExpired_dropToken ==
    /\ ~Busy
    /\ initialized
    /\ expiresAt' = 0
    /\ accessToken' = NoToken
    /\ expiredSet' = TRUE
    /\ lastReturn' = NoReturn
    /\ lastRefresh' = NoRefresh
    /\ UNCHANGED << now, ticks, refreshToken, oauthConfig, config, auth, lastSave, refreshPromise,
                    flights, store, issued, clientToken, onTokenRefresh, callers >>

setExpired ==
    /\ ~Busy
    /\ initialized
    /\ expiresAt' = 0
    /\ expiredSet' = TRUE
    /\ lastReturn' = NoReturn
    /\ lastRefresh' = NoRefresh
    /\ UNCHANGED << now, ticks, accessToken, refreshToken, oauthConfig, config, auth, lastSave, refreshPromise,
                    flights, store, issued, clientToken, onTokenRefresh, callers >>

\* timestamps around the refresh boundary, at it, and on both sides of now
Timestamps == { now + REFRESH_BUFFER_MS - 1, now + REFRESH_BUFFER_MS, now + REFRESH_BUFFER_MS + 1,
                now - 2 * REFRESH_BUFFER_MS, now + INITIAL_EXPIRY_MS }

\* an expiry already ten minutes past
Stale == { now - 2 * REFRESH_BUFFER_MS }

setExpiresAt(ts) ==
    /\ ~Busy
    /\ expiresAt' = ts
    /\ expiredSet' = FALSE
    /\ lastReturn' = NoReturn
    /\ lastRefresh' = NoRefresh
    /\ UNCHANGED << now, ticks, accessToken, refreshToken, oauthConfig, config, auth, lastSave, refreshPromise,
                    flights, store, issued, clientToken, onTokenRefresh, callers >>

(* ------------------------------ getAccessToken ------------------------- *)

\* the manager's state when a call is made: its expiry is overdue; setExpired() is in force
CallFlags ==
    [due |-> canRefresh /\ expiresAt # Undefined /\ now > expiresAt - REFRESH_BUFFER_MS,
     forced |-> canRefresh /\ expiredSet]

\* getAccessToken() by caller c, up to its return or its await
getAccessToken(c) ==
    /\ ~Busy
    /\ initialized
    /\ Free(c)
    /\ LET call == [Idle EXCEPT !.op = "get", !.due = CallFlags.due, !.forced = CallFlags.forced] IN
       IF needsRefresh
       THEN LET r == refresh IN
            /\ RefreshEffect(r)
            /\ callers' = [callers EXCEPT ![c] = [call EXCEPT !.pc = AwaitPc(r), !.flight = r.id]]
            /\ lastReturn' = NoReturn
       ELSE /\ lastReturn' = [NoReturn EXCEPT !.op = "get", !.tok = accessToken,
                                              !.due = call.due, !.forced = call.forced]
            /\ UNCHANGED << flights, refreshPromise, callers >>
    /\ lastRefresh' = NoRefresh
    /\ UNCHANGED << now, ticks, accessToken, refreshToken, expiresAt, oauthConfig, config, auth, lastSave,
                    store, issued, clientToken, onTokenRefresh, expiredSet >>

\* refresh() called directly by caller c
refreshCall(c) ==
    /\ ~Busy
    /\ initialized
    /\ Free(c)
    /\ LET r == refresh IN
          /\ RefreshEffect(r)
          /\ IF r.kind = "unavailable"
             THEN /\ lastReturn' = [NoReturn EXCEPT !.op = "refresh", !.err = "unavailable"]
                  /\ UNCHANGED callers
             ELSE /\ callers' = [callers EXCEPT ![c] =
                        [Idle EXCEPT !.pc = AwaitPc(r), !.op = "refresh", !.flight = r.id]]
                  /\ lastReturn' = NoReturn
    /\ lastRefresh' = NoRefresh
    /\ UNCHANGED << now, ticks, accessToken, refreshToken, expiresAt, oauthConfig, config, auth, lastSave,
                    store, issued, clientToken, onTokenRefresh, expiredSet >>

(* --------------------------------- doRefresh --------------------------- *)

\* saveTokens() writing the record without the refresh token
saveTokens_noRefresh(a, r, e) == Record(a, NoToken, e)

\* saveTokens(): the StoredTokens object handed to fs.writeFile
saveTokens(a, r, e) == Record(a, r, e)

\* doRefresh() assigning the new tokens but leaving the expiry for later
credentialAfter_keepExpiry(k, e) ==
    [accessToken |-> Minted(k), refreshToken |-> Minted(k), expiresAt |-> expiresAt]

\* doRefresh() assigning the new access token and expiry but keeping the old refresh token
credentialAfter_keepRefresh(k, e) ==
    [accessToken |-> Minted(k), refreshToken |-> refreshToken, expiresAt |-> now + e * 1000]

\* doRefresh() reading a field the token response does not have
credentialAfter_noToken(k, e) ==
    [accessToken |-> NoToken, refreshToken |-> Minted(k), expiresAt |-> now + e * 1000]

\* the fields doRefresh() assigns from the k-th token response
credentialAfter(k, e) ==
    [accessToken |-> Minted(k), refreshToken |-> Minted(k), expiresAt |-> now + e * 1000]

\* attempt of flight f succeeds: the fields are replaced and the write is issued
exchangeOk(f, e) ==
    /\ ~Busy
    /\ f \in 1..Len(flights)
    /\ flights[f].st = "fetch"
    /\ issued' = issued + 1
    /\ accessToken' = credentialAfter(issued + 1, e).accessToken
    /\ refreshToken' = credentialAfter(issued + 1, e).refreshToken
    /\ expiresAt' = credentialAfter(issued + 1, e).expiresAt
    /\ expiredSet' = FALSE
    /\ flights' = [flights EXCEPT ![f].st = "write", ![f].minted = Minted(issued + 1),
                                  ![f].writes = @ + 1,
                                  ![f].content = saveTokens(accessToken', refreshToken', expiresAt')]
    /\ lastReturn' = NoReturn
    /\ lastRefresh' = NoRefresh
    /\ UNCHANGED << now, ticks, oauthConfig, config, auth, lastSave, refreshPromise, store, clientToken,
                    onTokenRefresh, callers >>

\* why an exchange fails: fetch() throws, or the token endpoint answers with an error
\* status (the refresh token is invalid, expired or revoked)
Causes == {"network", "invalid_grant"}

\* the error doRefresh() throws when its last attempt failed with `cause`: whatever the
\* cause, a plain Error 'Token refresh failed after 3 attempts: ' followed by the text of
\* the last failure; no class, code or field tells one cause from the other
refreshError(cause) == "refresh"

\* the same wait after every failed attempt
retryDelay_flat(attempt) == RETRY_DELAY_MS

\* sleep(RETRY_DELAY_MS * attempt): the wait after the failure of an attempt
retryDelay(attempt) == RETRY_DELAY_MS * attempt

\* attempt of flight f fails: sleep and retry, or give up after MAX_REFRESH_RETRIES;
\* the manager then holds the access token `held`; lastError is the failure of the last attempt
exchangeFailWith(f, held, cause) ==
    /\ ~Busy
    /\ f \in 1..Len(flights)
    /\ flights[f].st = "fetch"
    /\ IF flights[f].attempt < MAX_REFRESH_RETRIES
       THEN /\ flights' = [flights EXCEPT ![f].st = "sleep",
                                          ![f].delay = retryDelay(flights[f].attempt)]
            /\ lastRefresh' = NoRefresh
            /\ UNCHANGED << refreshPromise, callers >>
       ELSE /\ flights' = [flights EXCEPT ![f] = [Outcome(f, "rejected") EXCEPT !.cause = cause]]
            /\ lastRefresh' = Summary(f, FALSE)
            /\ refreshPromise' = refreshFinally(FALSE)
            /\ callers' = Settle(f)
    /\ lastReturn' = NoReturn
    /\ accessToken' = held
    /\ UNCHANGED << now, ticks, refreshToken, expiresAt, oauthConfig, config, auth, lastSave,
                    store, issued, clientToken, onTokenRefresh, expiredSet >>

\* a catch block that drops the access token
exchangeFail_erase(f, cause) == exchangeFailWith(f, NoToken, cause)

\* the catch block assigns no field: the token held stays
exchangeFail(f, cause) == exchangeFailWith(f, accessToken, cause)

\* sleep(RETRY_DELAY_MS * attempt) of flight f ends: the next attempt is sent.
\* The clock is followed at the grain of Tick; the seconds a retry sleeps do not move it.
\* The flight keeps the length of its last wait.
sleepDone(f) ==
    /\ ~Busy
    /\ f \in 1..Len(flights)
    /\ flights[f].st = "sleep"
    /\ flights' = [flights EXCEPT ![f].st = "fetch", ![f].attempt = @ + 1,
                                  ![f].sent = refreshToken]
    /\ lastReturn' = NoReturn
    /\ lastRefresh' = NoRefresh
    /\ UNCHANGED << now, ticks, accessToken, refreshToken, expiresAt, oauthConfig, config, auth, lastSave,
                    refreshPromise, store, issued, clientToken, onTokenRefresh, callers,
                    expiredSet >>

\* saveTokens() letting the error of fs.writeFile escape into doRefresh()
saveOutcome_throws(ok) == IF ok THEN "resolved" ELSE "rejected"

\* how doRefresh() settles after saveTokens(): its try/catch keeps a write error inside
saveOutcome(ok) == "resolved"

\* fs.writeFile of flight f completes (ok) or throws (caught and logged): doRefresh returns
writeDone(f, ok) ==
    /\ ~Busy
    /\ f \in 1..Len(flights)
    /\ flights[f].st = "write"
    /\ store' = IF ok THEN flights[f].content ELSE store
    /\ flights' = [flights EXCEPT ![f] = [Outcome(f, saveOutcome(ok)) EXCEPT !.saved = ok]]
    /\ lastRefresh' = Summary(f, saveOutcome(ok) = "resolved")
    /\ refreshPromise' = refreshFinally(saveOutcome(ok) = "resolved")
    /\ callers' = Settle(f)
    /\ lastReturn' = NoReturn
    /\ UNCHANGED << now, ticks, accessToken, refreshToken, expiresAt, oauthConfig, config, auth, lastSave,
                    issued, clientToken, onTokenRefresh, expiredSet >>

(* ------------------------- continuations after a refresh --------------- *)

Resolved(c) == flights[callers[c].flight].st = "resolved"

\* getAccessToken() resumes after `await this.refresh()`: return this.accessToken
resumeGet(c) ==
    /\ callers[c].pc = "resume"
    /\ callers[c].op = "get"
    /\ LET ret == IF Resolved(c) THEN Return(c, accessToken, "none")
                  ELSE Return(c, NoToken, refreshError(flights[callers[c].flight].cause)) IN
          /\ lastReturn' = ret
          /\ flights' = [flights EXCEPT ![callers[c].flight].got = @ \cup {[tok |-> ret.tok, err |-> ret.err]}]
    /\ callers' = [callers EXCEPT ![c] = Idle]
    /\ lastRefresh' = NoRefresh
    /\ UNCHANGED << now, ticks, accessToken, refreshToken, expiresAt, oauthConfig, config, auth, lastSave,
                    refreshPromise, store, issued, clientToken, onTokenRefresh,
                    expiredSet >>

\* a direct refresh() call resumes: it resolves, or rejects with the refresh failure
resumeRefresh(c) ==
    /\ callers[c].pc = "resume"
    /\ callers[c].op = "refresh"
    /\ lastReturn' = Return(c, NoToken, IF Resolved(c) THEN "none"
                                         ELSE refreshError(flights[callers[c].flight].cause))
    /\ callers' = [callers EXCEPT ![c] = Idle]
    /\ lastRefresh' = NoRefresh
    /\ UNCHANGED << now, ticks, accessToken, refreshToken, expiresAt, oauthConfig, config, auth, lastSave,
                    refreshPromise, flights, store, issued, clientToken, onTokenRefresh,
                    expiredSet >>

(* -------------------------------- startServer -------------------------- *)

\* startServer() after initialize(): the initial getAccessToken(), then the client and
\* the server with the refresh callback only if refresh is available
startServer ==
    /\ ~Busy
    /\ callers[Main].pc = "init"
    /\ IF needsRefresh
       THEN LET r == refresh IN
            /\ RefreshEffect(r)
            /\ callers' = [callers EXCEPT ![Main] = [@ EXCEPT !.pc = AwaitPc(r), !.flight = r.id]]
            /\ UNCHANGED << clientToken, onTokenRefresh >>
       ELSE /\ callers' = [callers EXCEPT ![Main] = [@ EXCEPT !.pc = "up"]]
            /\ clientToken' = accessToken
            /\ onTokenRefresh' = canRefresh
            /\ UNCHANGED << flights, refreshPromise >>
    /\ lastReturn' = NoReturn
    /\ lastRefresh' = NoRefresh
    /\ UNCHANGED << now, ticks, accessToken, refreshToken, expiresAt, oauthConfig, config, auth, lastSave,
                    store, issued, expiredSet >>

\* startServer() resumes after the initial refresh: the server starts, or main() exits
resumeStart ==
    /\ callers[Main].pc = "resume"
    /\ IF Resolved(Main)
       THEN /\ callers' = [callers EXCEPT ![Main] = [@ EXCEPT !.pc = "up", !.flight = 0]]
            /\ clientToken' = accessToken
            /\ onTokenRefresh' = canRefresh
       ELSE /\ callers' = [callers EXCEPT ![Main] = [@ EXCEPT !.pc = "exit", !.flight = 0]]
            /\ UNCHANGED << clientToken, onTokenRefresh >>
    /\ lastReturn' = NoReturn
    /\ lastRefresh' = NoRefresh
    /\ UNCHANGED << now, ticks, accessToken, refreshToken, expiresAt, oauthConfig, config, auth, lastSave,
                    refreshPromise, flights, store, issued, expiredSet >>

(* ------------------------ tool calls: withRetry ------------------------ *)

\* HTTP status of the resource API's answer
Statuses == {200, 401, 404}

\* withRetry refreshing and retrying after any failure of the first call
withRetry_anyFailure(status, calls) == status # 200 /\ onTokenRefresh /\ calls = 1

\* withRetry retrying on every 401, the retried call's included
withRetry_always(status, calls) == status = 401 /\ onTokenRefresh

\* withRetry's catch: refresh and call fn() again?
withRetry(status, calls) == status = 401 /\ onTokenRefresh /\ calls = 1

\* a tool function sending its request whatever the parse of its arguments says
toolSends_beforeParse(valid) == TRUE

\* a tool function reaches client.request() when the zod parse at its top has passed
toolSends(valid) == valid

\* what the failure with this status is to the tool's caller; a ZodError has no status
toolError(status) ==
    IF status = 401 THEN "401" ELSE IF status = Undefined THEN "invalid_params" ELSE "api"

\* fn() of the call with record rec (caller c) failed with this status: withRetry's catch
\* either runs onTokenRefresh() - setExpired(); await refresh() - or rethrows
toolFailure(c, rec, status) ==
    IF withRetry(status, rec.calls)
    THEN LET r == refresh IN
         /\ expiresAt' = 0
         /\ expiredSet' = TRUE
         /\ RefreshEffect(r)
         /\ IF r.kind = "unavailable"
            THEN /\ lastReturn' = [ReturnOf(rec, NoToken, "unavailable") EXCEPT !.stage = "refresh",
                                                                               !.first = status]
                 /\ callers' = [callers EXCEPT ![c] = Idle]
            ELSE /\ callers' = [callers EXCEPT ![c] =
                       [rec EXCEPT !.pc = AwaitPc(r), !.stage = "refresh", !.flight = r.id,
                                   !.tok = NoToken, !.late = FALSE, !.first = status]]
                 /\ lastReturn' = NoReturn
    ELSE /\ lastReturn' = [ReturnOf(rec, NoToken, toolError(status))
                             EXCEPT !.status = status,
                                    !.first = IF rec.calls = 1 THEN status ELSE rec.first]
         /\ callers' = [callers EXCEPT ![c] = Idle]
         /\ UNCHANGED << expiresAt, expiredSet, flights, refreshPromise >>

\* a tool invocation: executeTool() parses the arguments and sends its request with the
\* client's bearer token; a failed parse throws a ZodError into withRetry's catch
toolCall(c, valid) ==
    /\ ~Busy
    /\ serverUp
    /\ Free(c)
    /\ LET rec == [Idle EXCEPT !.pc = "request", !.op = "tool", !.calls = 1,
                               !.tok = clientToken, !.late = needsRefresh, !.valid = valid] IN
          IF toolSends(valid)
          THEN /\ callers' = [callers EXCEPT ![c] = rec]
               /\ lastReturn' = NoReturn
               /\ UNCHANGED << expiresAt, expiredSet, flights, refreshPromise >>
          ELSE toolFailure(c, [rec EXCEPT !.tok = NoToken, !.late = FALSE], Undefined)
    /\ lastRefresh' = NoRefresh
    /\ UNCHANGED << now, ticks, accessToken, refreshToken, oauthConfig, config, auth, lastSave,
                    store, issued, clientToken, onTokenRefresh >>

\* the status of the answer to the first invocation of caller c's operation
firstStatus(c, status) == IF callers[c].calls = 1 THEN status ELSE callers[c].first

\* the resource API answers caller c's request
toolResponse(c, status) ==
    /\ ~Busy
    /\ callers[c].pc = "request"
    /\ IF status = 200
       THEN /\ lastReturn' = [Return(c, NoToken, "none") EXCEPT !.status = status,
                                                               !.first = firstStatus(c, status)]
            /\ callers' = [callers EXCEPT ![c] = Idle]
            /\ UNCHANGED << expiresAt, expiredSet, flights, refreshPromise >>
       ELSE toolFailure(c, callers[c], status)
    /\ lastRefresh' = NoRefresh
    /\ UNCHANGED << now, ticks, accessToken, refreshToken, oauthConfig, config, auth, lastSave, store, issued,
                    clientToken, onTokenRefresh >>

\* onTokenRefresh() never throwing: a failed refresh is dropped
refreshFailed_never(c) == FALSE

\* `await tokenManager.refresh()` (or the getAccessToken() after it) throws in onTokenRefresh()
refreshFailed(c) == ~Resolved(c)

\* client.setAccessToken(token): the token the client's requests carry from now on
setAccessToken(token) == token

\* onTokenRefresh() resumes: return getAccessToken(); then setAccessToken and fn() again
resumeTool(c) ==
    /\ callers[c].pc = "resume"
    /\ callers[c].op = "tool"
    /\ IF refreshFailed(c)
       THEN /\ lastReturn' = Return(c, NoToken, refreshError(flights[callers[c].flight].cause))
            /\ callers' = [callers EXCEPT ![c] = Idle]
            /\ UNCHANGED << flights, refreshPromise, clientToken >>
       ELSE IF callers[c].stage = "refresh" /\ needsRefresh
       THEN LET r == refresh IN
            /\ RefreshEffect(r)
            /\ callers' = [callers EXCEPT ![c] =
                  [@ EXCEPT !.pc = AwaitPc(r), !.stage = "get", !.flight = r.id]]
            /\ lastReturn' = NoReturn
            /\ UNCHANGED clientToken
       ELSE /\ clientToken' = setAccessToken(accessToken)
            /\ callers' = [callers EXCEPT ![c] =
                  [@ EXCEPT !.pc = "request", !.calls = @ + 1, !.tok = clientToken',
                            !.stage = "none"]]
            /\ lastReturn' = NoReturn
            /\ UNCHANGED << flights, refreshPromise >>
    /\ lastRefresh' = NoRefresh
    /\ UNCHANGED << now, ticks, accessToken, refreshToken, expiresAt, oauthConfig, config, auth, lastSave,
                    store, issued, onTokenRefresh, expiredSet >>

(* ------------------- the storage file across processes ---------------- *)

\* credentials a manager may hold when it saves
HeldTokens == {EnvToken, StoredToken, Minted(1)}

HeldExpiries == {Undefined, StartTime - 2 * REFRESH_BUFFER_MS, StartTime + INITIAL_EXPIRY_MS}

\* a manager holding any credential, no storage file yet
InitStore ==
    /\ now = StartTime
    /\ ticks = 0
    /\ config \in Configs
    /\ oauthConfig = (config.client /\ config.refreshToken # NoToken)
    /\ accessToken \in HeldTokens
    /\ refreshToken \in HeldTokens
    /\ expiresAt \in HeldExpiries
    /\ lastSave = NoSave
    /\ auth = AuthIdle
    /\ refreshPromise = 0
    /\ flights = << >>
    /\ store = Absent
    /\ issued = 0
    /\ clientToken = NoToken
    /\ onTokenRefresh = FALSE
    /\ callers = [c \in Procs |-> Idle]
    /\ expiredSet = FALSE
    /\ lastRefresh = NoRefresh
    /\ lastReturn = NoReturn

\* the credential held, as saved by `by`
Saved(by) ==
    [kind |-> "saved", accessToken |-> accessToken, refreshToken |-> refreshToken,
     expiresAt |-> expiresAt, loaded |-> FALSE, by |-> by]

\* TokenManager.saveTokens(): the write succeeds, or fails and is logged
saveStep(ok) ==
    /\ store' = IF ok THEN saveTokens(accessToken, refreshToken, expiresAt) ELSE store
    /\ lastSave' = IF ok THEN Saved("manager") ELSE lastSave
    /\ UNCHANGED << now, ticks, accessToken, refreshToken, expiresAt, oauthConfig, config, auth,
                    refreshPromise, flights, issued, clientToken, onTokenRefresh, callers,
                    expiredSet, lastRefresh, lastReturn >>

\* FileTokenStorage.saveTokens(accessToken, refreshToken): the object it writes
fileSaveTokens(a, r) == Record(a, r, Undefined)

\* OAuthManager saves the credential it holds through FileTokenStorage
fileSaveStep ==
    /\ store' = fileSaveTokens(accessToken, refreshToken)
    /\ lastSave' = Saved("file")
    /\ UNCHANGED << now, ticks, accessToken, refreshToken, expiresAt, oauthConfig, config, auth,
                    refreshPromise, flights, issued, clientToken, onTokenRefresh, callers,
                    expiredSet, lastRefresh, lastReturn >>

\* a new process: the constructor's fields, then loadStoredTokens()
loadStep ==
    /\ LET l == loadStoredTokensOver(EnvToken, config.refreshToken, Undefined) IN
          /\ accessToken' = l.accessToken
          /\ refreshToken' = l.refreshToken
          /\ expiresAt' = l.expiresAt
    /\ lastSave' = [lastSave EXCEPT !.loaded = (lastSave.kind = "saved")]
    /\ UNCHANGED << now, ticks, oauthConfig, config, auth, refreshPromise, flights, store, issued,
                    clientToken, onTokenRefresh, callers, expiredSet, lastRefresh, lastReturn >>

\* FileTokenStorage.getTokens(): the parsed object, or null
getTokens ==
    IF store.kind = "record"
    THEN [accessToken |-> store.accessToken, refreshToken |-> store.refreshToken,
          expiresAt |-> store.expiresAt]
    ELSE [accessToken |-> NoToken, refreshToken |-> NoToken, expiresAt |-> Undefined]

\* a new process holding what FileTokenStorage.getTokens() returned
fileLoadStep ==
    /\ accessToken' = getTokens.accessToken
    /\ refreshToken' = getTokens.refreshToken
    /\ expiresAt' = getTokens.expiresAt
    /\ lastSave' = [lastSave EXCEPT !.loaded = (lastSave.kind = "saved")]
    /\ UNCHANGED << now, ticks, oauthConfig, config, auth, refreshPromise, flights, store, issued,
                    clientToken, onTokenRefresh, callers, expiredSet, lastRefresh, lastReturn >>

\* the file is deleted, or its content damaged, outside the program
damage(s) ==
    /\ store # s
    /\ store' = s
    /\ lastSave' = NoSave
    /\ UNCHANGED << now, ticks, accessToken, refreshToken, expiresAt, oauthConfig, config, auth,
                    refreshPromise, flights, issued, clientToken, onTokenRefresh, callers,
                    expiredSet, lastRefresh, lastReturn >>

(* ---------------------------- startAuthServer -------------------------- *)

\* a resolve/reject that replaces the outcome of a promise already settled
settleAuth_overwrite(a, outcome, cause) ==
    [a EXCEPT !.promise = outcome, !.cause = cause, !.settles = @ + 1, !.calls = @ + 1]

\* resolve(...) or reject(...) of the promise startAuthServer() returns: the first call
\* settles it, a later call has no effect
settleAuth(a, outcome, cause) ==
    IF a.promise = "pending"
    THEN [a EXCEPT !.promise = outcome, !.cause = cause, !.settles = @ + 1, !.calls = @ + 1]
    ELSE [a EXCEPT !.calls = @ + 1]

\* server.close(): a listening server stops listening
closeAuth(a) == [a EXCEPT !.server = IF @ = "listening" THEN "closed" ELSE @]

\* startAuthServer(config, port): the server is created, listen() is called and the
\* timer is set
startAuthServer ==
    /\ auth.server = "none"
    /\ auth' = [auth EXCEPT !.server = "starting", !.timer = "armed",
                            !.deadline = auth.elapsed + AUTH_TIMEOUT_MS]
    /\ UNCHANGED << now, ticks, accessToken, refreshToken, expiresAt, oauthConfig, config,
                    lastSave, refreshPromise, flights, store, issued, clientToken,
                    onTokenRefresh, callers, expiredSet, lastRefresh, lastReturn >>

\* listen() ends: the server listens, or its 'error' handler rejects
authListen(ok) ==
    /\ auth.server = "starting"
    /\ auth' = IF ok THEN [auth EXCEPT !.server = "listening"]
               ELSE settleAuth([auth EXCEPT !.server = "failed"], "rejected", "listen_error")
    /\ UNCHANGED << now, ticks, accessToken, refreshToken, expiresAt, oauthConfig, config,
                    lastSave, refreshPromise, flights, store, issued, clientToken,
                    onTokenRefresh, callers, expiredSet, lastRefresh, lastReturn >>

\* the time a clock step of the authorization wait takes
authTickMs == AUTH_TIMEOUT_MS \div 2

\* time passes while the timer is pending
authTick ==
    /\ auth.server \notin {"none", "starting"}
    /\ auth.timer = "armed"
    /\ auth.elapsed < auth.deadline
    /\ auth' = [auth EXCEPT !.elapsed = @ + authTickMs]
    /\ UNCHANGED << now, ticks, accessToken, refreshToken, expiresAt, oauthConfig, config,
                    lastSave, refreshPromise, flights, store, issued, clientToken,
                    onTokenRefresh, callers, expiredSet, lastRefresh, lastReturn >>

\* the timer fires: server.close() and reject('Authorization timed out')
authTimeout ==
    /\ auth.timer = "armed"
    /\ auth.elapsed >= auth.deadline
    /\ auth' = settleAuth(closeAuth([auth EXCEPT !.timer = "fired"]), "rejected", "timeout")
    /\ UNCHANGED << now, ticks, accessToken, refreshToken, expiresAt, oauthConfig, config,
                    lastSave, refreshPromise, flights, store, issued, clientToken,
                    onTokenRefresh, callers, expiredSet, lastRefresh, lastReturn >>

\* what a request to the listener carries
RequestKinds == {"other_path", "error", "no_code", "code"}

\* the request handler up to its first await: 404 for another path, close and reject for
\* an error or a missing code, and the code exchange started otherwise
authRequest(kind) ==
    /\ auth.server = "listening"
    /\ auth.requests < MaxRequests
    /\ LET a == [auth EXCEPT !.requests = @ + 1] IN
          auth' = CASE kind = "other_path" -> a
                    [] kind = "error" -> settleAuth(closeAuth(a), "rejected", "oauth_error")
                    [] kind = "no_code" -> settleAuth(closeAuth(a), "rejected", "missing_code")
                    [] kind = "code" -> [a EXCEPT !.exchanges = @ + 1]
    /\ UNCHANGED << now, ticks, accessToken, refreshToken, expiresAt, oauthConfig, config,
                    lastSave, refreshPromise, flights, store, issued, clientToken,
                    onTokenRefresh, callers, expiredSet, lastRefresh, lastReturn >>

\* exchangeCodeForTokens() of one request ends: close and resolve, or close and reject
authExchangeDone(ok) ==
    /\ auth.exchanges > 0
    /\ LET a == closeAuth([auth EXCEPT !.exchanges = @ - 1]) IN
          auth' = IF ok THEN settleAuth(a, "resolved", "callback")
                  ELSE settleAuth(a, "rejected", "exchange_failed")
    /\ UNCHANGED << now, ticks, accessToken, refreshToken, expiresAt, oauthConfig, config,
                    lastSave, refreshPromise, flights, store, issued, clientToken,
                    onTokenRefresh, callers, expiredSet, lastRefresh, lastReturn >>

\* the interactive authorization runs for a registration that has no token yet
InitAuth == InitWith({Absent}) /\ config = [client |-> TRUE, refreshToken |-> NoToken]

(* ------------------------------ specifications ------------------------- *)

\* the steps of the doRefresh() activations
flightNext ==
    \/ \E f \in 1..MaxFlights, e \in ExpiresIn : exchangeOk(f, e)
    \/ \E f \in 1..MaxFlights, cause \in Causes : exchangeFail(f, cause)
    \/ \E f \in 1..MaxFlights : sleepDone(f)
    \/ \E f \in 1..MaxFlights, ok \in BOOLEAN : writeDone(f, ok)

\* the TokenManager driven through its public methods by concurrent callers
managerNext ==
    \/ initialize
    \/ flightNext
    \/ setExpired
    \/ \E ts \in Stale : setExpiresAt(ts)
    \/ \E c \in Callers : getAccessToken(c)
    \/ \E c \in Callers : refreshCall(c)
    \/ \E c \in Callers : resumeGet(c)
    \/ \E c \in Callers : resumeRefresh(c)

SpecManager == InitLive /\ [][managerNext]_vars

\* the same with the event loop's progress: an exchange request is answered (or fails),
\* a timer fires, a file write completes, and a continuation that is ready runs
SpecManagerFair ==
    /\ SpecManager
    /\ WF_vars(flightNext)
    /\ WF_vars(\E c \in Callers : resumeGet(c) \/ resumeRefresh(c))

\* the server: main() starts it, tool calls go through withRetry
serverNext ==
    \/ Tick
    \/ initialize
    \/ flightNext
    \/ startServer
    \/ resumeStart
    \/ \E c \in Callers, valid \in BOOLEAN : toolCall(c, valid)
    \/ \E c \in Callers, status \in Statuses : toolResponse(c, status)
    \/ \E c \in Callers : resumeTool(c)

SpecServer == InitLive /\ [][serverNext]_vars

\* the expiry judgement alone: the clock and the expiry setters
expiryNext ==
    \/ Tick
    \/ initialize
    \/ setExpired
    \/ \E ts \in Timestamps : setExpiresAt(ts)

SpecExpiry == Init /\ [][expiryNext]_vars

\* saves and loads of the storage file, by the TokenManager and by FileTokenStorage
storeNext ==
    \/ \E ok \in BOOLEAN : saveStep(ok)
    \/ fileSaveStep
    \/ loadStep
    \/ fileLoadStep
    \/ \E s \in {Absent, Corrupt, Unreadable} : damage(s)

SpecStore == InitStore /\ [][storeNext]_vars

\* the authorization wait: requests and exchange results arrive in any order
authNext ==
    \/ startAuthServer
    \/ \E ok \in BOOLEAN : authListen(ok)
    \/ authTick
    \/ authTimeout
    \/ \E kind \in RequestKinds : authRequest(kind)
    \/ \E ok \in BOOLEAN : authExchangeDone(ok)

\* listen() ends, time passes and a timer that is due fires; requests and exchange
\* results need not come
SpecAuth ==
    /\ InitAuth /\ [][authNext]_vars
    /\ WF_vars(\E ok \in BOOLEAN : authListen(ok))
    /\ WF_vars(authTick)
    /\ WF_vars(authTimeout)

(* -------------------------------- claims ------------------------------ *)

\* the doRefresh() activations whose promise has not settled
Active == { f \in 1..Len(flights) : ~Settled(f) }

\* C1: concurrent getAccessToken() calls made while a refresh is due share one refresh
\* operation: at most one doRefresh() is in progress at any time, every waiting caller
\* waits for that one, and every getAccessToken() caller that waited for an operation
\* receives that operation's outcome: the token it produced, or its failure.
C1_SingleFlight ==
    /\ Cardinality(Active) <= 1
    /\ \A c \in Procs : callers[c].pc = "await" => callers[c].flight = refreshPromise
                                                  /\ callers[c].flight \in Active
    /\ \A f \in 1..Len(flights) : \A g \in flights[f].got :
          IF flights[f].st = "resolved"
          THEN g = [tok |-> flights[f].minted, err |-> "none"] /\ g.tok # NoToken
          ELSE g = [tok |-> NoToken, err |-> "refresh"]

\* two getAccessToken() callers of one refresh: one has its token, the other is resuming
C1_Witness ==
    \E c \in Callers : \E f \in 1..Len(flights) :
        /\ callers[c].pc = "resume" /\ callers[c].op = "get" /\ callers[c].flight = f
        /\ callers[c].due
        /\ flights[f].got = {[tok |-> flights[f].minted, err |-> "none"]}

\* a returned tool call whose first invocation was rejected (401) with the callback set
Retried(r) == r.op = "tool" /\ (r.stage # "none" \/ r.calls = 2)

\* C2 as stated: whenever the first invocation is rejected with 401 and refresh is
\* available, the operation is invoked exactly once more and the caller receives the
\* second invocation's outcome.
C2_AsStated ==
    Retried(lastReturn) => lastReturn.calls = 2 /\ lastReturn.err \in {"none", "401", "api"}

\* C2, amended: the operation is never invoked a third time; and when the first invocation
\* is rejected with 401, refresh is available and the refresh callback succeeds, the
\* operation is invoked exactly once more and the caller receives the second invocation's
\* outcome: its result, or its failure.
C2_RetryOnce ==
    /\ \A c \in Callers : callers[c].calls <= 2
    /\ lastReturn.calls <= 2
    /\ Retried(lastReturn) /\ lastReturn.err \notin {"refresh", "unavailable"} =>
          /\ lastReturn.calls = 2
          /\ lastReturn.status \in Statuses
          /\ lastReturn.err = (IF lastReturn.status = 200 THEN "none"
                               ELSE IF lastReturn.status = 401 THEN "401" ELSE "api")

\* a tool call returns the second rejection of its operation
C2_Witness == lastReturn.op = "tool" /\ lastReturn.calls = 2 /\ lastReturn.err = "401"

\* C3: with refresh available, a getAccessToken() call made while setExpired() is in
\* force performs (or joins) a refresh before it returns.
C3_ForcedRefresh == lastReturn.op = "get" /\ lastReturn.forced => lastReturn.flight # 0

\* C4: after initialize() of a manager that can refresh and found no expiresAt,
\* needsRefresh() is true.
C4_UnknownExpiryDue ==
    lastReturn.op = "initialize" /\ lastReturn.noExpiry /\ canRefresh => needsRefresh

\* C5: no tool invocation sends its request with a token that is inside the refresh
\* window when the request is sent.
C5_FreshBearer ==
    \A c \in Callers : callers[c].pc = "request" /\ callers[c].calls = 1 => ~callers[c].late

\* C6: a getAccessToken() call made when a refresh is overdue and that returns a token
\* returns it after a refresh it waited for has completed, and returns that refresh's token.
C6_NoOverdueToken ==
    lastReturn.op = "get" /\ lastReturn.due /\ lastReturn.err = "none" =>
        /\ lastReturn.flight # 0
        /\ flights[lastReturn.flight].st = "resolved"
        /\ lastReturn.tok = flights[lastReturn.flight].minted

\* C7: with refresh available, needsRefresh() is true one millisecond inside the
\* five-minute buffer and false one millisecond outside it.
C7_Boundary ==
    /\ REFRESH_BUFFER_MS = 300000
    /\ canRefresh /\ expiresAt = now + REFRESH_BUFFER_MS - 1 => needsRefresh
    /\ canRefresh /\ expiresAt = now + REFRESH_BUFFER_MS + 1 => ~needsRefresh

\* a manager that can refresh, one millisecond inside the buffer
C7_Witness == canRefresh /\ expiresAt = now + REFRESH_BUFFER_MS - 1 /\ needsRefresh

\* C8: a doRefresh() whose third attempt is the one that succeeds resolves: its callers
\* resume with success, the manager holds the token pair of that attempt's response,
\* and fs.writeFile was called exactly once during it.
C8_RetryThenSucceed ==
    lastRefresh.id # 0 /\ lastRefresh.ok /\ lastRefresh.attempt = MAX_REFRESH_RETRIES =>
        /\ lastRefresh.minted # NoToken
        /\ accessToken = lastRefresh.minted
        /\ refreshToken = lastRefresh.minted
        /\ lastRefresh.writes = 1
        /\ flights[lastRefresh.id].st = "resolved"
        /\ \A c \in Procs : callers[c].pc = "resume" => Resolved(c)

\* a refresh that succeeded at its third attempt has just resolved, with a caller waiting
C8_Witness ==
    /\ lastRefresh.id # 0 /\ lastRefresh.ok /\ lastRefresh.attempt = 3
    /\ \E c \in Callers : callers[c].pc = "resume" /\ callers[c].flight = lastRefresh.id

\* the most recent doRefresh() exhausted its attempts
LastRejected == Len(flights) > 0 /\ flights[Len(flights)].st = "rejected"

\* C9: after a refresh that exhausted its attempts, the manager still holds the access
\* token it held when that refresh started, and a getAccessToken() call that returns
\* without refreshing returns that token.
C9_ExhaustionKeepsToken ==
    LastRejected =>
        /\ accessToken = flights[Len(flights)].before
        /\ accessToken # NoToken
        /\ lastReturn.op = "get" /\ lastReturn.err = "none" =>
              lastReturn.tok = flights[Len(flights)].before

\* after an exhausted refresh, a getAccessToken() call has returned without refreshing
C9_Witness ==
    /\ LastRejected
    /\ lastReturn.op = "get" /\ lastReturn.err = "none" /\ lastReturn.flight = 0
    /\ lastReturn.tok = flights[Len(flights)].before

\* C10: once every refresh operation has settled, by success or by exhaustion, the
\* pending handle is clear, and refresh() starts a new doRefresh(); while the handle is
\* set, the operation it holds has not settled.
C10_HandleCleared ==
    /\ Active = {} => refreshPromise = 0
    /\ Active = {} /\ canRefresh => refresh.kind = "started"
    /\ refreshPromise # 0 => refreshPromise \in Active

\* a new doRefresh() is in progress after one that exhausted its attempts
C10_Witness ==
    /\ Len(flights) >= 2
    /\ flights[1].st = "rejected"
    /\ flights[2].st = "fetch" /\ flights[2].attempt = 1
    /\ refreshPromise = 2

\* the thrown error a response status stands for in a returned call
ErrorOf(status) == IF status = 200 THEN "none" ELSE IF status = 401 THEN "401" ELSE "api"

\* a returned tool call whose first invocation failed in a way withRetry does not recover:
\* a failure other than 401, or a 401 with no refresh callback (static mode)
NotRecovered(r) ==
    /\ r.op = "tool"
    /\ r.first \in Statuses \ {200}
    /\ ~(r.first = 401 /\ onTokenRefresh)

\* C11: the wrapper refreshes and retries only after a 401 with the refresh callback set:
\* a call that is refreshing or was retried had a 401 as its first answer and the callback;
\* a call whose first invocation failed otherwise returns after that one invocation, with
\* that failure as its error, and having started or awaited no refresh.
C11_RetryOnlyOn401 ==
    /\ \A c \in Callers :
          callers[c].op = "tool" /\ (callers[c].stage # "none" \/ callers[c].calls >= 2) =>
              callers[c].first = 401 /\ onTokenRefresh
    /\ NotRecovered(lastReturn) =>
          /\ lastReturn.calls = 1
          /\ lastReturn.stage = "none"
          /\ lastReturn.flight = 0
          /\ lastReturn.status = lastReturn.first
          /\ lastReturn.err = ErrorOf(lastReturn.first)

\* a 401 in static mode has been returned to the caller after one invocation
C11_Witness ==
    /\ lastReturn.op = "tool" /\ lastReturn.first = 401 /\ ~onTokenRefresh
    /\ lastReturn.calls = 1 /\ lastReturn.err = "401"

\* C12: once a refresh has succeeded, the manager holds the access token and the refresh
\* token of the most recent token response, and every exchange request in flight presents
\* the refresh token the manager holds: that of the most recent successful refresh.
C12_RotatedToken ==
    /\ issued > 0 => /\ accessToken = Minted(issued)
                     /\ refreshToken = Minted(issued)
                     /\ accessToken \notin {EnvToken, StoredToken}
    /\ \A f \in 1..Len(flights) :
          flights[f].st = "fetch" =>
              /\ flights[f].sent = refreshToken
              /\ issued > 0 => flights[f].sent = Minted(issued)

\* an exchange is in flight after a successful refresh, presenting that refresh's token
C12_Witness ==
    \E f \in 1..Len(flights) :
        /\ flights[f].st = "fetch" /\ issued > 0 /\ flights[f].sent = Minted(issued)
        /\ \E g \in 1..Len(flights) : flights[g].st = "resolved" /\ flights[g].minted = Minted(issued)

\* the refresh f has settled, its token pair is the latest minted, and the storage file
\* does not hold it: the write of f failed
SaveFailed(f) ==
    /\ Settled(f)
    /\ issued > 0 /\ flights[f].minted = Minted(issued)
    /\ store.accessToken # flights[f].minted

\* C13: when the write of the storage file fails after a successful exchange, the refresh
\* resolves, every caller that waited for it gets the new access token (or success), and
\* getAccessToken() calls made afterwards return the new access token from memory.
C13_SaveFailureNotFatal ==
    \A f \in 1..Len(flights) :
        SaveFailed(f) =>
            /\ flights[f].st = "resolved"
            /\ accessToken = flights[f].minted
            /\ \A g \in flights[f].got : g = [tok |-> flights[f].minted, err |-> "none"]
            /\ \A c \in Procs : callers[c].pc = "resume" /\ callers[c].flight = f => Resolved(c)
            /\ lastReturn.op \in {"get", "refresh"} /\ lastReturn.flight = f => lastReturn.err = "none"
            /\ lastReturn.op = "get" /\ lastReturn.flight \in {0, f} =>
                  lastReturn.tok = flights[f].minted /\ lastReturn.err = "none"

\* after a failed write, a getAccessToken() call has returned the new token at once
C13_Witness ==
    \E f \in 1..Len(flights) :
        /\ SaveFailed(f)
        /\ lastReturn.op = "get" /\ lastReturn.flight = 0
        /\ lastReturn.tok = flights[f].minted

\* C14: the credential changes in one step: every step of an initialized manager that
\* changes the access token or the refresh token sets the access token, the refresh token
\* and the expiry together from one token response, so that no state between two steps,
\* and so no caller running between them, holds part of the old credential and part of
\* the new one.
C14_AtomicCommit ==
    [][ initialized /\ (accessToken' # accessToken \/ refreshToken' # refreshToken) =>
            /\ issued' = issued + 1
            /\ accessToken' = Minted(issued')
            /\ refreshToken' = Minted(issued')
            /\ \E e \in ExpiresIn : expiresAt' = now + e * 1000 ]_vars

\* a getAccessToken() call interleaved with a refresh still in progress (its write is
\* pending) has returned the new access token, the manager holding the new pair
C14_Witness ==
    \E f \in 1..Len(flights) :
        /\ flights[f].st = "write"
        /\ accessToken = flights[f].minted /\ refreshToken = flights[f].minted
        /\ lastReturn.op = "get" /\ lastReturn.tok = flights[f].minted

\* the step is the successful exchange of the pending single-flight refresh
CommitStep == \E f \in 1..Len(flights), e \in ExpiresIn : refreshPromise = f /\ exchangeOk(f, e)

\* the step is a call of one of the expiry setters
SetterStep == setExpired \/ \E ts \in Stale : setExpiresAt(ts)

\* C15 as stated: every step that changes the access token, the refresh token or the
\* expiry of an initialized manager is a step of the single-flight refresh.
C15_AsStated ==
    [][ initialized /\ << accessToken, refreshToken, expiresAt >>' # << accessToken, refreshToken, expiresAt >>
            => CommitStep ]_vars

\* C15, amended: the access token and the refresh token of an initialized manager change
\* only in the single-flight refresh; the expiry changes there and in setExpired() and
\* setExpiresAt(), which change neither token.
C15_MutationFrame ==
    [][ initialized =>
            /\ (accessToken' # accessToken \/ refreshToken' # refreshToken) => CommitStep
            /\ expiresAt' # expiresAt => CommitStep \/ SetterStep
            /\ SetterStep => accessToken' = accessToken /\ refreshToken' = refreshToken ]_vars

\* setExpired() has acted on a refreshed manager outside any refresh: the tokens are
\* those of the last refresh, the expiry is not
C15_Witness ==
    /\ initialized /\ refreshPromise = 0
    /\ issued > 0 /\ accessToken = Minted(issued) /\ refreshToken = Minted(issued)
    /\ expiredSet /\ expiresAt = 0

\* C16: after initialize(), canRefresh() is true exactly when the configuration supplied
\* the client id and secret and the manager holds a refresh token, from the configuration
\* or from the storage file.
C16_CanRefreshIff ==
    initialized => (canRefresh <=> (config.client /\ refreshToken # NoToken))

\* a manager built with an access token only
StaticConfig == ~config.client /\ config.refreshToken = NoToken

\* C17: a manager built with an access token only cannot refresh, and every
\* getAccessToken() call returns the token it was built with.
C17_StaticMode ==
    StaticConfig =>
        /\ ~canRefresh
        /\ lastReturn.op = "get" =>
              lastReturn.tok = EnvToken /\ lastReturn.err = "none" /\ lastReturn.flight = 0

\* the refresh that the call recorded in r waited for has failed
AwaitedRejected(r) == r.flight # 0 /\ flights[r.flight].st = "rejected"

\* C18: when the refresh triggered by a 401 fails, the tool call returns the refresh
\* error after its single invocation: no second invocation is made in any call whose
\* refresh failed, and every call that returns a refresh error made one invocation.
C18_RefreshFailurePropagates ==
    /\ \A c \in Callers :
          callers[c].op = "tool" /\ callers[c].calls >= 2 => ~AwaitedRejected(callers[c])
    /\ lastReturn.op = "tool" /\ AwaitedRejected(lastReturn) =>
          lastReturn.err = "refresh" /\ lastReturn.calls = 1
    /\ lastReturn.op = "tool" /\ lastReturn.err = "refresh" =>
          lastReturn.calls = 1 /\ AwaitedRejected(lastReturn)

\* a tool call whose first answer was 401 has returned the failure of its refresh
C18_Witness ==
    /\ lastReturn.op = "tool" /\ lastReturn.first = 401
    /\ lastReturn.err = "refresh" /\ lastReturn.calls = 1
    /\ AwaitedRejected(lastReturn)

\* C19: a refresh operation invokes the exchange at most MAX_REFRESH_RETRIES (3) times and
\* waits only between attempts; each wait is longer than the one before it; and every
\* refresh operation that was started settles, by success or by its error.
C19_BoundedRetry ==
    /\ [](\A f \in 1..Len(flights) :
             /\ flights[f].attempt <= MAX_REFRESH_RETRIES
             /\ flights[f].st = "sleep" => flights[f].attempt < MAX_REFRESH_RETRIES)
    /\ [][ \A f \in 1..Len(flights) :
             flights[f].st = "fetch" /\ flights'[f].st = "sleep" =>
                 flights'[f].delay > flights[f].delay ]_vars
    /\ (Active # {}) ~> (Active = {})

\* the third attempt of a refresh is in flight, after waits of one and then two seconds
C19_Witness ==
    \E f \in 1..Len(flights) :
        /\ flights[f].st = "fetch"
        /\ flights[f].attempt = MAX_REFRESH_RETRIES
        /\ flights[f].delay = 2 * RETRY_DELAY_MS

\* C20: when the token endpoint rejected the refresh token and the attempts are
\* exhausted, the error a caller receives is of another kind than the error it receives
\* when the attempts failed on the network.
C20_ReauthSurfaced ==
    /\ lastReturn.err # "none"
    /\ AwaitedRejected(lastReturn)
    /\ flights[lastReturn.flight].cause = "invalid_grant"
    => lastReturn.err # refreshError("network")

\* a getAccessToken() call made with the expiry overdue (and no setExpired() in force)
\* has returned a token
OverdueGetReturned ==
    lastReturn.op = "get" /\ lastReturn.due /\ ~lastReturn.forced /\ lastReturn.err = "none"

\* C21 as stated: a getAccessToken() call made with the expiry ten minutes past triggers
\* one refresh and, when it returns, the storage file holds the new credential.
C21_AsStated ==
    OverdueGetReturned =>
        /\ lastReturn.flight # 0
        /\ store.kind = "record" /\ store.accessToken = lastReturn.tok

\* C21, amended: such a call waits for one refresh and returns its token; and when the
\* write of that refresh did not fail, the storage file holds, when the call returns, the
\* new access token, the new refresh token and the new expiry.
C21_Lifecycle ==
    OverdueGetReturned =>
        /\ lastReturn.flight # 0
        /\ flights[lastReturn.flight].st = "resolved"
        /\ lastReturn.tok = flights[lastReturn.flight].minted
        /\ lastReturn.tok = Minted(issued)
        /\ flights[lastReturn.flight].saved =>
              /\ store.kind = "record"
              /\ store.accessToken = lastReturn.tok
              /\ store.refreshToken = lastReturn.tok
              /\ \E e \in ExpiresIn : store.expiresAt = now + e * 1000

\* the call has returned the refreshed token and the storage file holds it
C21_Witness ==
    /\ OverdueGetReturned
    /\ lastReturn.flight # 0
    /\ flights[lastReturn.flight].saved
    /\ store.accessToken = lastReturn.tok

\* a credential with both tokens
ValidCredential(c) == c.accessToken # NoToken /\ c.refreshToken # NoToken

\* the credential in memory is the one last saved
HoldsSaved ==
    /\ accessToken = lastSave.accessToken
    /\ refreshToken = lastSave.refreshToken
    /\ expiresAt = lastSave.expiresAt

\* C22: when a valid credential has been saved to the storage file and a load of the
\* same file follows, the credential loaded equals the one saved in its access token,
\* its refresh token and its expiry.
C22_RoundTrip ==
    lastSave.kind = "saved" /\ lastSave.loaded /\ ValidCredential(lastSave) => HoldsSaved

\* the storage file is missing, cannot be read or cannot be parsed
NoUsableFile == store.kind \in {"absent", "unreadable", "corrupt"}

\* C23: with a missing, unreadable or unparsable storage file, loadStoredTokens() returns
\* "absent" without throwing and initialize() completes, the manager holding the access
\* token and the refresh token of its configuration.
C23_LoadResilient ==
    NoUsableFile =>
        /\ loadOutcome(store) = "absent"
        /\ lastReturn.op = "initialize" =>
              /\ lastReturn.err = "none"
              /\ callers[Main].pc = "init"
              /\ accessToken = EnvToken
              /\ refreshToken = config.refreshToken

\* initialize() has completed over an unparsable file
C23_Witness ==
    /\ store.kind = "corrupt"
    /\ lastReturn.op = "initialize" /\ lastReturn.err = "none"
    /\ callers[Main].pc = "init" /\ accessToken = EnvToken

\* C24: a ready manager (initialize() has run; a refresh has settled) holds a non-empty
\* accessToken, and a getAccessToken() call that returns normally returns a non-empty
\* token.
C24_TokenNeverEmpty ==
    /\ initialized => accessToken # NoToken
    /\ lastRefresh.id # 0 => accessToken # NoToken
    /\ lastReturn.op = "get" /\ lastReturn.err = "none" => lastReturn.tok # NoToken

\* a getAccessToken() call returns the token of the refresh it awaited
C24_Witness ==
    /\ lastReturn.op = "get" /\ lastReturn.err = "none" /\ lastReturn.flight # 0
    /\ lastReturn.tok = accessToken /\ accessToken \notin {NoToken, EnvToken, StoredToken}

\* the promise of startAuthServer() has settled
AuthSettled == auth.promise # "pending"

\* C25: the promise of startAuthServer() settles exactly once: every wait that started
\* settles (at the latest when the 5-minute timer fires), an outcome once set is never
\* replaced by a later callback, exchange result or timer, and whenever the promise is
\* settled the server no longer listens.
C25_SettlesOnce ==
    /\ [](auth.settles <= 1 /\ (AuthSettled <=> auth.settles = 1))
    /\ [](AuthSettled => auth.server \in {"closed", "failed"})
    /\ [](auth.cause = "timeout" => auth.elapsed >= auth.deadline)
    /\ [][AuthSettled => auth'.promise = auth.promise /\ auth'.cause = auth.cause]_vars
    /\ (auth.server # "none") ~> AuthSettled

\* the wait was resolved by a callback, and a later reject (a second exchange, the timer)
\* found it settled
C25_Witness ==
    /\ auth.promise = "resolved" /\ auth.cause = "callback"
    /\ auth.calls >= 2 /\ auth.settles = 1 /\ auth.server = "closed"

\* the step just taken rejected a tool call for its arguments
RejectedInvalid == lastReturn.op = "tool" /\ lastReturn.err = "invalid_params"

SameTokenPair(a, b) ==
    /\ Len(flights) = 1 /\ flights[1].st = "resolved"
    /\ callers[a].pc = "request" /\ callers[a].calls = 2
    /\ callers[a].first = 401 /\ callers[a].flight = 1
    /\ callers[b].pc = "request" /\ callers[b].calls = 1 /\ callers[b].tok # accessToken

\* the step starts a doRefresh() for caller b
StartsRefresh(b) == Len(flights') > Len(flights) /\ callers'[b].flight = Len(flights')

\* C27, for the first refresh of a server: when a tool call sent with the startup token
\* was answered 401 and its refresh has settled, the 401 handling of a second call sent
\* with that same token starts no second doRefresh().
C27_OneRefreshPerToken ==
    [][\A a, b \in Callers : SameTokenPair(a, b) => ~StartsRefresh(b)]_vars

\* ts is the expiry a token response committed between the start and now computes
CommittedExpiry(ts) ==
    \E e \in ExpiresIn : StartTime <= ts - e * 1000 /\ ts - e * 1000 <= now

\* C28: when a refresh settles successfully, expiresAt is the expiry its commit computed
\* (commit time + expires_in), whatever setExpired() calls other callers made while it
\* was in flight.
C28_CommittedExpiryKept ==
    lastRefresh.id # 0 /\ lastRefresh.ok => CommittedExpiry(expiresAt)

\* caller c's request is issued in this step
Issues(c) == callers[c].pc # "request" /\ callers'[c].pc = "request"

\* C29: a tool request issued while no refresh is pending carries the manager's current
\* access token, which is also the token the client holds; so does every request issued
\* after a refresh that succeeded.
C29_ClientTokenCurrent ==
    [][\A c \in Callers : Issues(c) /\ refreshPromise' = 0 =>
            /\ callers'[c].tok = accessToken'
            /\ clientToken' = accessToken']_vars

\* C30: with every exchange call, retry delay and store write eventually settling, every
\* getAccessToken() and refresh() call that waits - the one that started the refresh as
\* well as those that joined it - eventually returns its token or its error: whenever
\* calls are in progress, a state follows in which all of them have returned.
C30_CallersReturn ==
    (\E c \in Callers : callers[c].pc # "idle") ~> (\A c \in Callers : callers[c].pc = "idle")

\* a caller has returned from a refresh that a second caller, resumed by the same
\* settlement, also awaited
C30_Witness ==
    /\ lastReturn.op \in {"get", "refresh"} /\ lastReturn.flight # 0
    /\ \E c \in Callers : callers[c].pc = "resume" /\ callers[c].flight = lastReturn.flight

====
